---- MODULE Spec2Model ----
(***************************************************************************)
(* A model of the book ingestion and query scripts:                        *)
(*   process_books.py  BookRAGProcessor (clean_text, chunk_text,           *)
(*                     extract_text_from_pdf, process_all_books)           *)
(*   query_database.py query_database and the command line entry point     *)
(* Text is modelled by TLA+ strings; a character is a string of length 1.  *)
(***************************************************************************)
EXTENDS Integers, Sequences, FiniteSets, TLC

VARIABLES
    cleanPc, cleanIn, cleanOut1, cleanOut2,
    chunkPc, chunkText, chunkSize, chunkOverlap, chunkResult,
    pc, listing, files, addPolicy, history,
    pdf_files, bookIdx, all_chunks, all_metadatas, all_ids,
    batchStart, batches, collection, summary, log,
    qPc, argv, top_k, qStore, qEncodeFails, stdout, stderr

cleanVars == <<cleanPc, cleanIn, cleanOut1, cleanOut2>>
chunkVars == <<chunkPc, chunkText, chunkSize, chunkOverlap, chunkResult>>
ingestVars == <<pc, listing, files, addPolicy, history, pdf_files, bookIdx,
                all_chunks, all_metadatas, all_ids, batchStart, batches,
                collection, summary, log>>
queryVars == <<qPc, argv, top_k, qStore, qEncodeFails, stdout, stderr>>
vars == <<cleanVars, chunkVars, ingestVars, queryVars>>

-----------------------------------------------------------------------------
(* Bounds of the model *)

\* longest input string of the clean_text runs
MaxLen == 5
\* most words in an input text of the chunk_text runs
MaxWords == 4
\* largest chunk_size and overlap argument of the chunk_text runs
MaxChunkSize == 3
MaxOverlap == 4
\* most entries of the Books folder, and most runs of process_all_books
MaxFiles == 2
MaxRuns == 2
\* most records of the collection a query runs against
MaxStored == 3
\* chunk_size=500, overlap=50 and batch_size=100 of the source, scaled down so
\* that a book of a few words spans several chunks and several batches
DefaultChunkSize == 3
DefaultOverlap == 1
batch_size == 2

-----------------------------------------------------------------------------
(* Strings *)

Min(a, b) == IF a < b THEN a ELSE b
Max(a, b) == IF a > b THEN a ELSE b

\* s[i] of Python, 1-based here
Char(s, i) == SubSeq(s, i, i)

\* the characters \s matches and str.strip()/str.split() treat as blank
Whitespace == {" ", "\n", "\t", "\r", "\f"}

\* the characters \w matches
WordChars ==
    {"a", "b", "c", "d", "e", "f", "g", "h", "i", "j", "k", "l", "m",
     "n", "o", "p", "q", "r", "s", "t", "u", "v", "w", "x", "y", "z",
     "A", "B", "C", "D", "E", "F", "G", "H", "I", "J", "K", "L", "M",
     "N", "O", "P", "Q", "R", "S", "T", "U", "V", "W", "X", "Y", "Z",
     "0", "1", "2", "3", "4", "5", "6", "7", "8", "9", "_"}

\* the punctuation the second substitution of clean_text keeps
KeptPunctuation == {".", ",", "!", "?", ";", ":", "-", "(", ")"}

\* the concatenation of the strings pieces[lo], ..., pieces[hi]
RECURSIVE Concat(_, _, _)
Concat(pieces, lo, hi) ==
    IF lo > hi THEN ""
    ELSE IF lo = hi THEN pieces[lo]
    ELSE LET mid == (lo + hi) \div 2
         IN  Concat(pieces, lo, mid) \o Concat(pieces, mid + 1, hi)

\* re.sub(r'\s+', ' ', text): every maximal whitespace run becomes one space
CollapseWhitespace(s) ==
    LET pieces == [i \in 1..Len(s) |->
                      IF Char(s, i) \in Whitespace
                      THEN (IF i > 1 /\ Char(s, i - 1) \in Whitespace THEN "" ELSE " ")
                      ELSE Char(s, i)]
    IN  Concat(pieces, 1, Len(s))

\* re.sub(r'[^\w\s\.\,\!\?\;\:\-\(\)]', '', text)
RemoveSpecial(s) ==
    LET pieces == [i \in 1..Len(s) |->
                      IF Char(s, i) \in WordChars \cup Whitespace \cup KeptPunctuation
                      THEN Char(s, i) ELSE ""]
    IN  Concat(pieces, 1, Len(s))

\* str.strip()
strip(s) ==
    LET n == Len(s)
        solid(i) == Char(s, i) \notin Whitespace
    IN  IF \A i \in 1..n : ~solid(i) THEN ""
        ELSE SubSeq(s, CHOOSE i \in 1..n : solid(i) /\ \A j \in 1..(i - 1) : ~solid(j),
                       CHOOSE i \in 1..n : solid(i) /\ \A j \in (i + 1)..n : ~solid(j))

\* str.split(): the maximal runs of non-blank characters, in order
RECURSIVE SplitFrom(_, _)
SplitFrom(s, i) ==
    LET n == Len(s)
        solid(j) == Char(s, j) \notin Whitespace
    IN  IF \A j \in i..n : ~solid(j) THEN <<>>
        ELSE LET first == CHOOSE j \in i..n : solid(j) /\ \A k \in i..(j - 1) : ~solid(k)
                 last == CHOOSE j \in first..n :
                             (j = n \/ ~solid(j + 1)) /\ \A k \in first..j : solid(k)
             IN  <<SubSeq(s, first, last)>> \o SplitFrom(s, last + 1)

split(s) == SplitFrom(s, 1)

\* ' '.join(words)
join(words) ==
    LET pieces == [k \in 1..Len(words) |-> IF k = 1 THEN words[k] ELSE " " \o words[k]]
    IN  Concat(pieces, 1, Len(words))

-----------------------------------------------------------------------------
(* BookRAGProcessor.clean_text *)

clean_text(text) == strip(RemoveSpecial(CollapseWhitespace(text)))

-----------------------------------------------------------------------------
(* BookRAGProcessor.chunk_text *)

\* a chunk is kept when len(chunk.strip()) > 50
MinChunkChars == 50

\* ceil(a / b) for b > 0
CeilDiv(a, b) == -((-a) \div b)

\* range() with the number of values rounded down: it misses the last,
\* partial stride
PyRangeRoundedDown(start, stop, step) ==
    IF step = 0 THEN [error |-> TRUE, values |-> <<>>]
    ELSE LET n == IF step > 0 THEN Max(0, (stop - start) \div step)
                  ELSE Max(0, (start - stop) \div (-step))
         IN  [error |-> FALSE, values |-> [k \in 1..n |-> start + (k - 1) * step]]

\* range(start, stop, step): ValueError when step is 0, empty when the step
\* leads away from stop
PyRange(start, stop, step) ==
    IF step = 0 THEN [error |-> TRUE, values |-> <<>>]
    ELSE LET n == IF step > 0 THEN Max(0, CeilDiv(stop - start, step))
                  ELSE Max(0, CeilDiv(start - stop, -step))
         IN  [error |-> FALSE, values |-> [k \in 1..n |-> start + (k - 1) * step]]

\* the index pairs <<i, j>> of the slices words[i:i + chunk_size] the loop
\* takes on a list of L words (j already cut at L, as slicing does)
WindowBounds(L, chunk_size, overlap) ==
    LET r == PyRange(0, L, chunk_size - overlap)
    IN  [k \in 1..Len(r.values) |->
            <<r.values[k], Min(r.values[k] + chunk_size, L)>>]

\* words[i:j] for 0 <= i
Slice(words, i, j) == SubSeq(words, i + 1, Min(j, Len(words)))

\* the slices of the loop, before the length filter
RawWindows(words, chunk_size, overlap) ==
    LET b == WindowBounds(Len(words), chunk_size, overlap)
    IN  [k \in 1..Len(b) |-> Slice(words, b[k][1], b[k][2])]

\* the test of the loop body: len(chunk.strip()) > 50
IsMeaningful(chunk) == Len(strip(chunk)) > MinChunkChars

\* no call made yet
NoResult == [raised |-> "", windows |-> <<>>, chunks |-> <<>>]

\* the outcome of a call: raised is "" on a normal return
chunk_text(text, chunk_size, overlap) ==
    LET words == split(text)
        r == PyRange(0, Len(words), chunk_size - overlap)
    IN  IF r.error
        THEN [raised |-> "ValueError", windows |-> <<>>, chunks |-> <<>>]
        ELSE LET w == RawWindows(words, chunk_size, overlap)
             IN  [raised |-> "", windows |-> w,
                  chunks |-> SelectSeq([k \in 1..Len(w) |-> join(w[k])], IsMeaningful)]

-----------------------------------------------------------------------------
(* BookRAGProcessor.extract_text_from_pdf *)

\* str.endswith(suffix)
endswith(s, suffix) ==
    /\ Len(s) >= Len(suffix)
    /\ SubSeq(s, Len(s) - Len(suffix) + 1, Len(s)) = suffix

\* str.replace(old, new): every occurrence of old, left to right, not overlapping
RECURSIVE ReplaceFrom(_, _, _, _)
ReplaceFrom(s, i, old, new) ==
    IF i > Len(s) THEN ""
    ELSE IF i + Len(old) - 1 <= Len(s) /\ SubSeq(s, i, i + Len(old) - 1) = old
         THEN new \o ReplaceFrom(s, i + Len(old), old, new)
         ELSE Char(s, i) \o ReplaceFrom(s, i + 1, old, new)

replace(s, old, new) == ReplaceFrom(s, 1, old, new)

\* A PDF file is the sequence of its pages; extract_text() of a page yields
\* text or raises.
TextPage(t) == [raises |-> FALSE, text |-> t]
BadPage == [raises |-> TRUE, text |-> ""]

\* text is what was read when the loop ended; failed says that the except
\* clause ran (the text read before the failure is kept and returned)
extract_text_from_pdf(pages) ==
    LET bad == {k \in 1..Len(pages) : pages[k].raises}
        stop == IF bad = {} THEN Len(pages) + 1
                ELSE CHOOSE k \in bad : \A j \in bad : k <= j
        read == [k \in 1..(stop - 1) |-> pages[k].text \o "\n"]
    IN  [text |-> Concat(read, 1, stop - 1), failed |-> bad # {}]

-----------------------------------------------------------------------------
(* The embedding model and the Chroma collection *)

\* SentenceTransformer.encode(texts): one vector per text, a function of the text
encode(texts) == [k \in 1..Len(texts) |-> <<"embedding", texts[k]>>]

Range(f) == {f[k] : k \in DOMAIN f}

\* collection.add(documents, embeddings, metadatas, ids) on collection `coll`.
\* Ids repeated within one call are rejected (DuplicateIDError); an id the
\* collection already holds is rejected (IDAlreadyExistsError) or skipped with
\* its old record kept, by the chromadb release in use (`policy`).
CollectionAdd(coll, policy, batch) ==
    LET ids == batch.ids
        n == Len(ids)
        present == DOMAIN coll
        record(k) == [document |-> batch.documents[k],
                      embedding |-> batch.embeddings[k],
                      metadata |-> batch.metadatas[k]]
        fresh == {k \in 1..n : ids[k] \notin present}
    IN  IF \E j, k \in 1..n : j # k /\ ids[j] = ids[k]
        THEN [raised |-> "DuplicateIDError", coll |-> coll]
        ELSE IF policy = "raise" /\ fresh # 1..n
        THEN [raised |-> "IDAlreadyExistsError", coll |-> coll]
        ELSE [raised |-> "",
              coll |-> [id \in present \cup {ids[k] : k \in fresh} |->
                          IF id \in present THEN coll[id]
                          ELSE record(CHOOSE k \in fresh : ids[k] = id)]]

-----------------------------------------------------------------------------
(* BookRAGProcessor.process_all_books *)

\* f"{book_name}_chunk_{i}"
ChunkId(book_name, i) == book_name \o "_chunk_" \o ToString(i)

ChunkMetadata(book_name, i, pdf_file) ==
    [book |-> book_name, chunk_id |-> i, source |-> pdf_file]

\* one pass of the loop over pdf_files: what it prints and what it appends
BookResult(pdf_file, pages) ==
    LET ext == extract_text_from_pdf(pages)
        raw_text == ext.text
        errors == IF ext.failed THEN <<<<"Error reading", pdf_file>>>> ELSE <<>>
    IN  IF strip(raw_text) = ""
        THEN [printed |-> errors \o <<<<"No text extracted", pdf_file>>>>,
              chunks |-> <<>>, metadatas |-> <<>>, ids |-> <<>>]
        ELSE LET chunks == chunk_text(clean_text(raw_text), DefaultChunkSize,
                                      DefaultOverlap).chunks
                 book_name == replace(pdf_file, ".pdf", "")
                 n == Len(chunks)
             IN  [printed |-> errors \o <<<<"Processed chunks", pdf_file>>>>,
                  chunks |-> chunks,
                  metadatas |-> [k \in 1..n |-> ChunkMetadata(book_name, k - 1, pdf_file)],
                  ids |-> [k \in 1..n |-> ChunkId(book_name, k - 1)]]

Finished == {"done", "aborted"}

\* lines 56-67: list the folder; return when it holds no PDF
ListBooks ==
    /\ pc = "ready" \/ (pc \in Finished /\ Len(history) < MaxRuns)
    /\ pdf_files' = SelectSeq(listing, LAMBDA f : endswith(f, ".pdf"))
    /\ all_chunks' = <<>> /\ all_metadatas' = <<>> /\ all_ids' = <<>>
    /\ batches' = <<>> /\ batchStart' = 0 /\ bookIdx' = 1
    /\ IF pdf_files' = <<>>
       THEN /\ log' = <<<<"No PDF files found">>>>
            /\ pc' = "done"
            /\ history' = Append(history, "no PDF files")
       ELSE /\ log' = <<>>
            /\ pc' = "books"
            /\ UNCHANGED history
    /\ UNCHANGED <<listing, files, addPolicy, collection, summary,
                   cleanVars, chunkVars, queryVars>>

\* lines 69-96: one book
ProcessBook ==
    /\ pc = "books" /\ bookIdx <= Len(pdf_files)
    /\ \E r \in {BookResult(pdf_files[bookIdx], files[pdf_files[bookIdx]])} :
           /\ all_chunks' = all_chunks \o r.chunks
           /\ all_metadatas' = all_metadatas \o r.metadatas
           /\ all_ids' = all_ids \o r.ids
           /\ log' = log \o r.printed
    /\ bookIdx' = bookIdx + 1
    /\ pc' = IF bookIdx' > Len(pdf_files) THEN "batches" ELSE "books"
    /\ UNCHANGED <<listing, files, addPolicy, history, pdf_files, batchStart,
                   batches, collection, summary, cleanVars, chunkVars, queryVars>>

\* the batch with the ids sliced one position late
BatchOfMisaligned(i) ==
    [documents |-> Slice(all_chunks, i, i + batch_size),
     embeddings |-> encode(Slice(all_chunks, i, i + batch_size)),
     metadatas |-> Slice(all_metadatas, i, i + batch_size),
     ids |-> Slice(all_ids, i + 1, i + 1 + batch_size)]

\* all_x[i:i + batch_size] of lines 104-106
BatchOf(i) ==
    [documents |-> Slice(all_chunks, i, i + batch_size),
     embeddings |-> encode(Slice(all_chunks, i, i + batch_size)),
     metadatas |-> Slice(all_metadatas, i, i + batch_size),
     ids |-> Slice(all_ids, i, i + batch_size)]

Abort(exception) ==
    /\ pc' = "aborted"
    /\ history' = Append(history, exception)

\* lines 103-119: one batch is embedded and added to the collection
StoreBatch ==
    /\ pc = "batches" /\ batchStart < Len(all_chunks)
    /\ \E r \in {CollectionAdd(collection, addPolicy, BatchOf(batchStart))} :
           IF r.raised = ""
           THEN /\ collection' = r.coll
                /\ batches' = Append(batches, BatchOf(batchStart))
                /\ batchStart' = batchStart + batch_size
                /\ UNCHANGED <<pc, history>>
           ELSE /\ Abort(r.raised)
                /\ UNCHANGED <<collection, batches, batchStart>>
    /\ UNCHANGED <<listing, files, addPolicy, pdf_files, bookIdx, all_chunks,
                   all_metadatas, all_ids, summary, log,
                   cleanVars, chunkVars, queryVars>>

\* lines 109-117: the model or the store fails for a reason of its own; the
\* exception is not caught and ends the run
BatchFails ==
    /\ pc = "batches" /\ batchStart < Len(all_chunks)
    /\ Abort("RuntimeError")
    /\ UNCHANGED <<listing, files, addPolicy, pdf_files, bookIdx, all_chunks,
                   all_metadatas, all_ids, batchStart, batches, collection,
                   summary, log, cleanVars, chunkVars, queryVars>>

\* processing_summary.json does not exist
NoSummary == [written |-> FALSE]

SummaryOf(files_found, n_chunks) ==
    [written |-> TRUE,
     total_books |-> Len(files_found),
     total_chunks |-> n_chunks,
     books_processed |-> [k \in 1..Len(files_found) |-> replace(files_found[k], ".pdf", "")]]

\* the summary written without waiting for the batch loop to end
WriteSummaryEarly ==
    /\ pc = "batches"
    /\ summary' = [written |-> TRUE,
                   total_books |-> Len(pdf_files),
                   total_chunks |-> Len(all_chunks),
                   books_processed |-> [k \in 1..Len(pdf_files) |-> replace(pdf_files[k], ".pdf", "")]]
    /\ pc' = "done"
    /\ history' = Append(history, "done")
    /\ UNCHANGED <<listing, files, addPolicy, pdf_files, bookIdx, all_chunks,
                   all_metadatas, all_ids, batchStart, batches, collection, log,
                   cleanVars, chunkVars, queryVars>>

\* lines 121-133: after the last batch
WriteSummary ==
    /\ pc = "batches" /\ batchStart >= Len(all_chunks)
    /\ summary' = SummaryOf(pdf_files, Len(all_chunks))
    /\ pc' = "done"
    /\ history' = Append(history, "done")
    /\ UNCHANGED <<listing, files, addPolicy, pdf_files, bookIdx, all_chunks,
                   all_metadatas, all_ids, batchStart, batches, collection, log,
                   cleanVars, chunkVars, queryVars>>

\* The Books folder
FileNames == {"a.pdf", "a.pdf.pdf", "b.pdf", "notes.txt"}

\* three long words each, with blank runs and characters clean_text removes
Page1 == TextPage("mindfulness-of-breathing   calms-the-wandering-mind*\n and-awakens-loving-kindness")
Page2 == TextPage("for-every-sentient-being in-all-the-ten-directions \"without-any-exception.\"")

FileContents ==
    { <<Page1, Page2>>,            \* a readable book
      <<BadPage, Page2>>,          \* unreadable from the first page on
      <<Page1, BadPage, Page2>>,   \* unreadable after the first page
      <<TextPage(" \n\t")>> }      \* a scan without a text layer

RECURSIVE Listings(_)
Listings(n) ==
    IF n = 0 THEN {<<>>}
    ELSE LET shorter == Listings(n - 1)
         IN  shorter \cup {Append(l, f) : l \in shorter, f \in FileNames}

InitIngest ==
    /\ pc = "ready"
    /\ listing \in {l \in Listings(MaxFiles) :
                        \A j, k \in 1..Len(l) : j # k => l[j] # l[k]}
    /\ files \in [Range(listing) -> FileContents]
    /\ addPolicy \in {"raise", "ignore"}
    /\ history = <<>> /\ pdf_files = <<>> /\ bookIdx = 0
    /\ all_chunks = <<>> /\ all_metadatas = <<>> /\ all_ids = <<>>
    /\ batchStart = 0 /\ batches = <<>> /\ collection = <<>>
    /\ summary = NoSummary /\ log = <<>>

-----------------------------------------------------------------------------
(* Values the variables of a pipeline hold while another one is explored *)

IdleClean ==
    /\ cleanPc = "idle" /\ cleanIn = "" /\ cleanOut1 = "" /\ cleanOut2 = ""

IdleChunk ==
    /\ chunkPc = "idle" /\ chunkText = "" /\ chunkSize = 0 /\ chunkOverlap = 0
    /\ chunkResult = NoResult

IdleIngest ==
    /\ pc = "idle" /\ listing = <<>> /\ files = <<>> /\ addPolicy = "ignore"
    /\ history = <<>> /\ pdf_files = <<>> /\ bookIdx = 0
    /\ all_chunks = <<>> /\ all_metadatas = <<>> /\ all_ids = <<>>
    /\ batchStart = 0 /\ batches = <<>> /\ collection = <<>>
    /\ summary = NoSummary /\ log = <<>>

IdleQuery ==
    /\ qPc = "idle" /\ argv = <<>> /\ top_k = 0
    /\ qStore = [exists |-> FALSE, strict |-> FALSE, records |-> <<>>]
    /\ qEncodeFails = FALSE /\ stdout = <<>> /\ stderr = <<>>

-----------------------------------------------------------------------------
(* clean_text applied once and then again to its own output *)

CleanAlphabet == {"a", " ", "\n", "@"}

RECURSIVE StringsUpTo(_, _)
StringsUpTo(alphabet, n) ==
    IF n = 0 THEN {""}
    ELSE LET shorter == StringsUpTo(alphabet, n - 1)
         IN  shorter \cup {s \o c : s \in shorter, c \in alphabet}

InitClean ==
    /\ cleanPc = "start"
    /\ cleanIn \in StringsUpTo(CleanAlphabet, MaxLen)
    /\ cleanOut1 = "" /\ cleanOut2 = ""
    /\ IdleChunk /\ IdleIngest /\ IdleQuery

CleanOnce ==
    /\ cleanPc = "start"
    /\ cleanOut1' = clean_text(cleanIn)
    /\ cleanPc' = "once"
    /\ UNCHANGED <<cleanIn, cleanOut2, chunkVars, ingestVars, queryVars>>

CleanAgain ==
    /\ cleanPc = "once"
    /\ cleanOut2' = clean_text(cleanOut1)
    /\ cleanPc' = "twice"
    /\ UNCHANGED <<cleanIn, cleanOut1, chunkVars, ingestVars, queryVars>>

NextClean == CleanOnce \/ CleanAgain

SpecClean == InitClean /\ [][NextClean]_vars

-----------------------------------------------------------------------------
(* chunk_text called with every small text, chunk_size and overlap *)

\* a word too short and a word long enough to matter to the length filter
ChunkVocabulary == {"om", "loving-kindness-and-compassion"}

RECURSIVE WordLists(_)
WordLists(n) ==
    IF n = 0 THEN {<<>>}
    ELSE LET shorter == WordLists(n - 1)
         IN  shorter \cup {Append(w, v) : w \in shorter, v \in ChunkVocabulary}

InitChunk ==
    /\ chunkPc = "start"
    /\ chunkText \in {join(w) : w \in WordLists(MaxWords)}
    /\ chunkSize \in 1..MaxChunkSize
    /\ chunkOverlap \in 0..MaxOverlap
    /\ chunkResult = NoResult
    /\ IdleClean /\ IdleIngest /\ IdleQuery

ChunkCall ==
    /\ chunkPc = "start"
    /\ chunkResult' = chunk_text(chunkText, chunkSize, chunkOverlap)
    /\ chunkPc' = IF chunkResult'.raised = "" THEN "returned" ELSE "raised"
    /\ UNCHANGED <<chunkText, chunkSize, chunkOverlap, cleanVars, ingestVars, queryVars>>

NextChunk == ChunkCall

SpecChunk == InitChunk /\ [][NextChunk]_vars

\* C3: clean_text is idempotent, and its output holds no run of two or
\* more whitespace characters.
C3_CleanIdempotent ==
    /\ cleanPc = "twice" => cleanOut2 = cleanOut1
    /\ cleanPc \in {"once", "twice"} =>
          \A i \in 1..(Len(cleanOut1) - 1) :
              ~(Char(cleanOut1, i) \in Whitespace /\ Char(cleanOut1, i + 1) \in Whitespace)

\* C1: a call with overlap >= chunk_size ends by raising; it never returns
\* a chunk list.
C1_FailsFast ==
    (chunkPc \in {"returned", "raised"} /\ chunkOverlap >= chunkSize)
        => chunkPc = "raised"

\* C2 (as stated): with chunk_size > overlap the loop builds
\* ceil((L - overlap) / (chunk_size - overlap)) raw windows, window j starts
\* at word j * (chunk_size - overlap), and every window but the last holds
\* exactly chunk_size words.
C2_WindowCountAsStated ==
    (chunkPc = "returned" /\ chunkSize > chunkOverlap) =>
        LET words == split(chunkText)
            step == chunkSize - chunkOverlap
            w == chunkResult.windows
        IN  /\ Len(w) = Max(0, CeilDiv(Len(words) - chunkOverlap, step))
            /\ \A k \in 1..Len(w) :
                  /\ w[k] = Slice(words, (k - 1) * step, (k - 1) * step + chunkSize)
                  /\ k < Len(w) => Len(w[k]) = chunkSize

\* C2 (amended): with chunk_size > overlap the loop builds
\* ceil(L / (chunk_size - overlap)) raw windows, window j is
\* words[j * step : j * step + chunk_size], so it holds
\* min(chunk_size, L - j * step) words and exactly chunk_size words when it
\* starts at or before word L - chunk_size; 600 words with 500/50 give the
\* two windows words[0:500] and words[450:600].
C2_WindowCount ==
    /\ (chunkPc = "returned" /\ chunkSize > chunkOverlap) =>
          LET words == split(chunkText)
              L == Len(words)
              step == chunkSize - chunkOverlap
              w == chunkResult.windows
          IN  /\ Len(w) = CeilDiv(L, step)
              /\ \A k \in 1..Len(w) :
                    /\ w[k] = Slice(words, (k - 1) * step, (k - 1) * step + chunkSize)
                    /\ Len(w[k]) = Min(chunkSize, L - (k - 1) * step)
                    /\ (k - 1) * step <= L - chunkSize => Len(w[k]) = chunkSize
    /\ WindowBounds(600, 500, 50) = <<<<0, 500>>, <<450, 600>>>>

\* C2 (witness): a call has returned several windows of which one that is
\* not the last is shorter than chunk_size.
C2_ShortInnerWindow ==
    /\ chunkPc = "returned" /\ chunkSize > chunkOverlap
    /\ \E k \in 1..(Len(chunkResult.windows) - 1) :
          Len(chunkResult.windows[k]) < chunkSize

Init == InitIngest /\ IdleClean /\ IdleChunk /\ IdleQuery

Next == ListBooks \/ ProcessBook \/ StoreBatch \/ BatchFails \/ WriteSummary

Spec == Init /\ [][Next]_vars

-----------------------------------------------------------------------------
(* query_database.py *)

Digits == <<"0", "1", "2", "3", "4", "5", "6", "7", "8", "9">>

\* the value of a string of decimal digits
RECURSIVE DigitsValue(_)
DigitsValue(d) ==
    IF d = "" THEN 0
    ELSE 10 * DigitsValue(SubSeq(d, 1, Len(d) - 1))
         + (CHOOSE v \in 0..9 : Digits[v + 1] = Char(d, Len(d)))

\* int(s): blanks around it stripped, an optional sign, then digits only;
\* anything else is a ValueError
PyInt(s) ==
    LET t == strip(s)
        signed == t # "" /\ Char(t, 1) \in {"+", "-"}
        d == IF signed THEN SubSeq(t, 2, Len(t)) ELSE t
    IN  IF d = "" \/ \E i \in 1..Len(d) : Char(d, i) \notin Range(Digits)
        THEN [error |-> TRUE, value |-> 0]
        ELSE [error |-> FALSE,
              value |-> IF signed /\ Char(t, 1) = "-" THEN -DigitsValue(d) ELSE DigitsValue(d)]

\* the body of the try block of query_database: raised is "" when it returned
\* `results`. get_collection raises when the collection is missing, encode may
\* fail, collection.query rejects n_results <= 0 and, by the chromadb release
\* in use (store.strict), rejects or cuts n_results above the record count.
TryQuery(store, encode_fails, n_results) ==
    IF ~store.exists THEN [raised |-> "collection does not exist", results |-> <<>>]
    ELSE IF encode_fails THEN [raised |-> "encode failed", results |-> <<>>]
    ELSE IF n_results <= 0 THEN [raised |-> "n_results must be positive", results |-> <<>>]
    ELSE IF store.strict /\ n_results > Len(store.records)
    THEN [raised |-> "not enough elements", results |-> <<>>]
    ELSE LET hits == SubSeq(store.records, 1, Min(n_results, Len(store.records)))
         IN  [raised |-> "",
              results |-> [i \in 1..Len(hits) |->
                              [content |-> hits[i].document,
                               metadata |-> hits[i].metadata,
                               score |-> 1 - hits[i].distance]]]

\* lines 43-48: the arguments
ParseArgs ==
    /\ qPc = "start"
    /\ IF Len(argv) < 2
       THEN /\ stdout' = Append(stdout, [kind |-> "text", value |-> "Usage"])
            /\ qPc' = "exit 1"
            /\ UNCHANGED <<top_k, stderr>>
       ELSE IF Len(argv) > 2
       THEN IF PyInt(argv[3]).error
            THEN /\ stderr' = Append(stderr, "Traceback: ValueError")
                 /\ qPc' = "uncaught"
                 /\ UNCHANGED <<top_k, stdout>>
            ELSE /\ top_k' = PyInt(argv[3]).value
                 /\ qPc' = "parsed"
                 /\ UNCHANGED <<stdout, stderr>>
       ELSE /\ top_k' = 5
            /\ qPc' = "parsed"
            /\ UNCHANGED <<stdout, stderr>>
    /\ UNCHANGED <<argv, qStore, qEncodeFails, cleanVars, chunkVars, ingestVars>>

\* lines 50-51 with query_database (lines 6-40)
QueryAndPrint ==
    /\ qPc = "parsed"
    /\ \E r \in {TryQuery(qStore, qEncodeFails, top_k)} :
          /\ stderr' = IF r.raised = "" THEN stderr
                       ELSE Append(stderr, "Error querying database: " \o r.raised)
          /\ stdout' = Append(stdout, [kind |-> "json", value |-> r.results])
    /\ qPc' = "exit 0"
    /\ UNCHANGED <<argv, top_k, qStore, qEncodeFails, cleanVars, chunkVars, ingestVars>>

\* the k-th nearest record of the collection and its cosine distance
StoredRecord(k) ==
    [document |-> "passage " \o ToString(k),
     metadata |-> ChunkMetadata("a", k - 1, "a.pdf"),
     distance |-> Min(k - 1, 2)]

TopKArguments == {"3", "1", "0", "-1", "abc", ""}

InitQuery ==
    /\ qPc = "start"
    /\ argv \in {<<"query_database.py">>, <<"query_database.py", "inner peace">>}
                \cup {<<"query_database.py", "inner peace", t>> : t \in TopKArguments}
    /\ top_k = 0
    /\ qStore \in [exists : {TRUE}, strict : BOOLEAN,
                   records : {[k \in 1..n |-> StoredRecord(k)] : n \in 0..MaxStored}]
                  \cup {[exists |-> FALSE, strict |-> FALSE, records |-> <<>>]}
    /\ qEncodeFails \in BOOLEAN
    /\ stdout = <<>> /\ stderr = <<>>
    /\ IdleClean /\ IdleChunk /\ IdleIngest

NextQuery == ParseArgs \/ QueryAndPrint

SpecQuery == InitQuery /\ [][NextQuery]_vars

\* C6: an invocation with a query argument ends normally with exactly one
\* JSON array on standard output, whatever top_k is and whether or not the
\* store or the embedding fails.
C6_AlwaysJson ==
    (Len(argv) >= 2 /\ qPc \in {"exit 0", "exit 1", "uncaught"}) =>
        /\ qPc = "exit 0"
        /\ Len(stdout) = 1 /\ stdout[1].kind = "json"

-----------------------------------------------------------------------------
(* Claims about process_all_books *)

\* extraction of the book raised at some page
ExtractionFails(pdf_file) == \E k \in 1..Len(files[pdf_file]) : files[pdf_file][k].raises

\* the books the loop has passed
Passed == {pdf_files[k] : k \in 1..Min(bookIdx - 1, Len(pdf_files))}

\* the books the loop skipped with "No text extracted"
Skipped == {f \in Passed : <<"No text extracted", f>> \in Range(log)}

\* C4: a book whose extraction failed at any page is logged and skipped
\* entirely: none of its chunks is accumulated.
C4_FailedBookSkipped ==
    \A f \in Passed :
        ExtractionFails(f) =>
            /\ <<"Error reading", f>> \in Range(log)
            /\ \A k \in 1..Len(all_metadatas) : all_metadatas[k].source # f

\* C5: the ids accumulated in a run are pairwise distinct.
C5_IdsDistinct ==
    \A j, k \in 1..Len(all_ids) : j # k => all_ids[j] # all_ids[k]

\* the ids, documents and metadatas of the batches added in this run, in order
RECURSIVE Submitted(_, _)
Submitted(field, n) ==
    IF n = 0 THEN <<>> ELSE Submitted(field, n - 1) \o batches[n][field]

ThisRunWroteSummary ==
    pc = "done" /\ history # <<>> /\ history[Len(history)] = "done"

\* C8: the summary lists exactly the books that were not skipped, in
\* discovery order, total_books is their number and total_chunks the number
\* of records submitted.
C8_SummaryListsProcessed ==
    ThisRunWroteSummary =>
        LET kept == SelectSeq(pdf_files, LAMBDA f : f \notin Skipped)
        IN  /\ summary.written
            /\ summary.books_processed = [k \in 1..Len(kept) |-> replace(kept[k], ".pdf", "")]
            /\ summary.total_books = Len(summary.books_processed)
            /\ summary.total_chunks = Len(Submitted("ids", Len(batches)))

\* C7: a second run over the same folder after a completed one ends without
\* error (unless the model or the store fails for a reason of its own) and
\* every id it submitted holds the record of this run.
C7_RerunOverwrites ==
    LET n == Len(history)
    IN  (pc \in Finished /\ n >= 2 /\ history[n - 1] = "done" /\ history[n] # "RuntimeError") =>
            /\ history[n] = "done"
            /\ \A b \in 1..Len(batches) : \A k \in 1..Len(batches[b].ids) :
                  /\ batches[b].ids[k] \in DOMAIN collection
                  /\ collection[batches[b].ids[k]].document = batches[b].documents[k]
                  /\ collection[batches[b].ids[k]].metadata = batches[b].metadatas[k]

\* C9: the summary is written only when every batch of the run is stored; a
\* failing batch ends the run with the summary and the collection as they
\* were, the earlier batches still stored and nothing stored afterwards; a
\* folder without a PDF ends the run with no record and no summary written.
C9_SummaryAfterAllBatches ==
    [][ /\ summary' # summary \/ (pc = "batches" /\ pc' = "done") =>
            /\ pc = "batches" /\ pc' = "done"
            /\ Submitted("ids", Len(batches)) = all_ids
            /\ Submitted("documents", Len(batches)) = all_chunks
            /\ \A k \in 1..Len(all_ids) : all_ids[k] \in DOMAIN collection
        /\ pc' = "aborted" /\ pc # "aborted" =>
            /\ pc = "batches"
            /\ UNCHANGED <<summary, collection, batches, batchStart>>
            /\ \A b \in 1..Len(batches) : Range(batches[b].ids) \subseteq DOMAIN collection'
        /\ pc = "aborted" => UNCHANGED <<summary, collection>>
        /\ pdf_files' = <<>> /\ pc' = "done" => UNCHANGED <<summary, collection>>
      ]_vars

\* C9 (witness): a later run was aborted at its second or a later batch while
\* the summary of an earlier run exists.
C9_AbortedAfterFirstBatch ==
    /\ pc = "aborted" /\ Len(batches) >= 1 /\ summary.written
    /\ history[Len(history)] = "RuntimeError"

\* C10: nothing is embedded or stored while books are still being read, and
\* the batches added are the consecutive slices of at most batch_size chunks
\* of the accumulated lists, texts, metadatas and ids aligned, each chunk
\* once and in order; a completed run has added them all.
C10_BatchesInOrder ==
    /\ pc = "books" => batches = <<>>
    /\ pc \in {"batches", "done"} =>
          \A b \in 1..Len(batches) :
              LET lo == (b - 1) * batch_size
                  hi == Min(b * batch_size, Len(all_chunks))
                  n == hi - lo
              IN  /\ batches[b].documents = SubSeq(all_chunks, lo + 1, hi)
                  /\ batches[b].metadatas = SubSeq(all_metadatas, lo + 1, hi)
                  /\ batches[b].ids = SubSeq(all_ids, lo + 1, hi)
                  /\ batches[b].embeddings = encode(SubSeq(all_chunks, lo + 1, hi))
                  /\ n >= 1 /\ n <= batch_size
                  /\ n < batch_size => (b = Len(batches) /\ hi = Len(all_chunks))
                  /\ \A k \in 1..n :
                        batches[b].ids[k] =
                            ChunkId(batches[b].metadatas[k].book, batches[b].metadatas[k].chunk_id)
    /\ pc = "done" =>
          /\ Len(batches) = CeilDiv(Len(all_chunks), batch_size)
          /\ Submitted("documents", Len(batches)) = all_chunks

\* C10 (witness): a run has completed after several batches of which the
\* last is not full.
C10_SeveralBatches ==
    /\ pc = "done" /\ Len(batches) >= 2
    /\ Len(batches[Len(batches)].ids) < batch_size

====
